---- MODULE Spec2Model ----
(***************************************************************************)
(* Transfer-log replay and holder aggregation of                           *)
(* chaindata/eth-mainnet/process_nft_holders.py (specification Spec), and  *)
(* the scanners and the allocation builder of scripts/ and genesis/, each  *)
(* under a specification of its own in which the other scripts do not run. *)
(*                                                                         *)
(* Strings are sequences of one-character strings, so that the slicing     *)
(* ([-40:]), the '0x' prefixing and the base-16 parsing of the script are  *)
(* computed and not assumed.                                               *)
(***************************************************************************)
EXTENDS Integers, Sequences, FiniteSets, TLC

VARIABLES
    transfers,     \* the events of the loaded list the loop has iterated so far
    nft_owners,    \* dict tokenId -> owner                              (line 11)
    owner_tokens,  \* defaultdict(list), kept in key insertion order     (line 12)
    holders,       \* list of {address, tokenIds, tokenCount}            (line 33)
    json_file,     \* lux_nft_current_holders.json
    csv_file,      \* lux_nft_holders.csv
    pc,            \* position of the script
    err,           \* the exception that ended the run, "none" while it runs
    zoo,           \* get-zoo-burns-efficient.py: the batch loop of scan_zoo_burns
    calls,         \* get-zoo-burns-efficient.py: the calls of scan_burns_in_range
    lux,           \* get-lux-nft-holders-efficient.py: scan_lux_nft_holders
    xchain,        \* genesis/X-Chain/generate_allocations.py
    purchases      \* exports/genesis-analysis-20250722-060502/analyze_purchases.py

\* the state of process_nft_holders.py
nftVars == <<transfers, nft_owners, owner_tokens, holders, json_file, csv_file, pc, err>>

vars == <<transfers, nft_owners, owner_tokens, holders, json_file, csv_file, pc, err,
          zoo, calls, lux, xchain, purchases>>

\* the value of the variable of a script that does not run
NotRunning == "not running"

----------------------------------------------------------------------------
(* Bounds and input alphabet *)

MaxEvents == 3

Rep(c, n) == [i \in 1..n |-> c]

Ox == <<"0", "x">>

\* number of hex characters an address is cut to
AddrHexLen == 40

\* a 32-byte topic, 64 hex characters: 24 pad characters, 39 zeros and one
\* last character
Word(pad, last) == Ox \o Rep(pad, 24) \o Rep("0", 39) \o <<last>>

\* topics[0]: the event signature, never read by the script
SigTopic == Ox \o <<"d", "d", "f", "2">>

\* topics[1]: the sender; line 17 reads it into from_addr, which nothing uses
FromTopics == {Word("0", "a")}

\* topics[2]: receiver: the zero address, address ..0a (with dirty upper
\* bytes, which the slice drops) and address ..0b
ToTopics == {Word("0", "0"), Word("f", "a"), Word("0", "b")}

\* topics[3]: token ids 1, 2 and 10 in hex, and one that is no hex number
TokenTopics == {Word("0", "1"), Word("0", "2"), Word("0", "a"), Word("0", "g")}

\* an event of the input file: an ERC-721 Transfer log (4 topics) or a log
\* with only 3 topics (an ERC-20 style Transfer)
Events ==
    {[topics |-> <<SigTopic, f, t, k>>] : f \in FromTopics, t \in ToTopics, k \in TokenTopics}
    \cup {[topics |-> <<SigTopic, Word("0", "a"), Word("0", "b")>>]}

----------------------------------------------------------------------------
(* String helpers *)

\* s[-n:]
Last(s, n) == SubSeq(s, IF Len(s) > n THEN Len(s) - n + 1 ELSE 1, Len(s))

\* '0x' + topic[-40:]
AddrOf(topic) == Ox \o Last(topic, AddrHexLen)

\* line 28: '0x' and 40 zeros
ZERO_ADDRESS == Ox \o Rep("0", 40)

HexDigit ==
    ("0" :> 0) @@ ("1" :> 1) @@ ("2" :> 2) @@ ("3" :> 3) @@ ("4" :> 4) @@
    ("5" :> 5) @@ ("6" :> 6) @@ ("7" :> 7) @@ ("8" :> 8) @@ ("9" :> 9) @@
    ("a" :> 10) @@ ("b" :> 11) @@ ("c" :> 12) @@ ("d" :> 13) @@ ("e" :> 14) @@
    ("f" :> 15) @@ ("A" :> 10) @@ ("B" :> 11) @@ ("C" :> 12) @@ ("D" :> 13) @@
    ("E" :> 14) @@ ("F" :> 15)

\* the digits of a base-16 literal: an optional 0x / 0X prefix is dropped
HexBody(s) ==
    IF Len(s) >= 2 /\ s[1] = "0" /\ s[2] \in {"x", "X"} THEN SubSeq(s, 3, Len(s)) ELSE s

\* int(s, 16) does not raise ValueError.  The topics of the input alphabet
\* hold no sign, blank or underscore, the other characters int() accepts.
IsHexInt(s) ==
    LET d == HexBody(s)
    IN  Len(d) > 0 /\ \A i \in 1..Len(d) : d[i] \in DOMAIN HexDigit

\* the value of the first n digits of d
RECURSIVE HexValue(_, _)
HexValue(d, n) ==
    IF n = 0 THEN 0 ELSE 16 * HexValue(d, n - 1) + HexDigit[d[n]]

\* int(s, 16), for s with IsHexInt(s)
HexInt(s) == LET d == HexBody(s) IN HexValue(d, Len(d))

----------------------------------------------------------------------------
(* List and dict helpers *)

Range(s) == {s[i] : i \in 1..Len(s)}

\* x in list
InList(x, s) == \E i \in 1..Len(s) : s[i] = x

\* list.remove(x): drops the first occurrence
RemoveFirst(s, x) ==
    LET i == CHOOSE j \in 1..Len(s) : s[j] = x /\ \A k \in 1..(j - 1) : s[k] # x
    IN  SubSeq(s, 1, i - 1) \o SubSeq(s, i + 1, Len(s))

\* owner in owner_tokens
HasKey(ot, owner) == \E i \in 1..Len(ot) : ot[i].owner = owner

KeyIndex(ot, owner) == CHOOSE i \in 1..Len(ot) : ot[i].owner = owner

\* the dict after owner_tokens[owner] was read: a defaultdict inserts an
\* empty list, at the end of the key order, for a key it does not have
Touch(ot, owner) ==
    IF HasKey(ot, owner) THEN ot ELSE Append(ot, [owner |-> owner, tokens |-> <<>>])

\* owner_tokens[owner], after Touch
TokensOf(ot, owner) == ot[KeyIndex(ot, owner)].tokens

----------------------------------------------------------------------------
(* The replay loop, lines 15-30 *)

\* len(transfer['topics']) >= 4
HasFourTopics(transfer) == Len(transfer.topics) >= 4

\* RemoveFromPrevOwner with lines 22-25 left out
M_RemoveFromPrevOwner_Skipped(nft, ot, token_id) == ot

\* lines 22-25: the token leaves the list of the owner nft_owners records
RemoveFromPrevOwner(nft, ot, token_id) ==
    IF token_id \in DOMAIN nft
    THEN LET prev_owner == nft[token_id]
             touched == Touch(ot, prev_owner)
             i == KeyIndex(touched, prev_owner)
         IN  IF InList(token_id, touched[i].tokens)
             THEN [touched EXCEPT ![i].tokens = RemoveFirst(@, token_id)]
             ELSE touched
    ELSE ot

\* SetOwner as nft_owners.setdefault(token_id, to_addr): the first owner stays
M_SetOwner_SetDefault(nft, to_addr, token_id) ==
    IF to_addr # ZERO_ADDRESS /\ token_id \notin DOMAIN nft
    THEN [t \in DOMAIN nft \cup {token_id} |-> IF t = token_id THEN to_addr ELSE nft[t]]
    ELSE nft

\* lines 28-29: nft_owners[token_id] = to_addr, unless burning
SetOwner(nft, to_addr, token_id) ==
    IF to_addr # ZERO_ADDRESS
    THEN [t \in DOMAIN nft \cup {token_id} |-> IF t = token_id THEN to_addr ELSE nft[t]]
    ELSE nft

\* AddToNewOwner without the test of line 28
M_AddToNewOwner_NoBurnTest(ot, to_addr, token_id) ==
    LET touched == Touch(ot, to_addr)
        i == KeyIndex(touched, to_addr)
    IN  [touched EXCEPT ![i].tokens = Append(@, token_id)]

\* AddToNewOwner with line 28 comparing to_addr with the literal '0x0'
M_AddToNewOwner_WrongZeroLiteral(ot, to_addr, token_id) ==
    IF to_addr # Ox \o <<"0">>
    THEN LET touched == Touch(ot, to_addr)
             i == KeyIndex(touched, to_addr)
         IN  [touched EXCEPT ![i].tokens = Append(@, token_id)]
    ELSE ot

\* lines 28, 30: owner_tokens[to_addr].append(token_id), unless burning
AddToNewOwner(ot, to_addr, token_id) ==
    IF to_addr # ZERO_ADDRESS
    THEN LET touched == Touch(ot, to_addr)
             i == KeyIndex(touched, to_addr)
         IN  [touched EXCEPT ![i].tokens = Append(@, token_id)]
    ELSE ot

\* Outcome with a token id that does not parse treated like a short event
M_Outcome_SkipBadTokenId(transfer) ==
    IF ~HasFourTopics(transfer) THEN "skip"
    ELSE IF ~IsHexInt(transfer.topics[4]) THEN "skip"
    ELSE "apply"

\* lines 16-19: an event with fewer than 4 topics is passed over; int(.., 16)
\* raises ValueError for a token id that is no hex number (the two slices of
\* lines 17-18 cannot raise)
Outcome(transfer) ==
    IF ~HasFourTopics(transfer) THEN "skip"
    ELSE IF ~IsHexInt(transfer.topics[4]) THEN "ValueError"
    ELSE "apply"

\* ProcessTransfer without the test of line 24: list.remove raises ValueError
\* for a token that is not in the list of its recorded owner
M_ProcessTransfer_RemoveUnguarded ==
    /\ pc = "replay"
    /\ Len(transfers) < MaxEvents
    /\ \E transfer \in Events :
         /\ transfers' = Append(transfers, transfer)
         /\ IF Outcome(transfer) = "skip"
            THEN UNCHANGED <<nft_owners, owner_tokens, pc, err>>
            ELSE IF Outcome(transfer) = "ValueError"
            THEN /\ pc' = "error"
                 /\ err' = "ValueError"
                 /\ UNCHANGED <<nft_owners, owner_tokens>>
            ELSE LET to_addr == AddrOf(transfer.topics[3])
                     token_id == HexInt(transfer.topics[4])
                     removed == RemoveFromPrevOwner(nft_owners, owner_tokens, token_id)
                 IN  IF /\ token_id \in DOMAIN nft_owners
                        /\ ~InList(token_id, TokensOf(owner_tokens, nft_owners[token_id]))
                     THEN /\ pc' = "error"
                          /\ err' = "ValueError"
                          /\ UNCHANGED <<nft_owners, owner_tokens>>
                     ELSE /\ nft_owners' = SetOwner(nft_owners, to_addr, token_id)
                          /\ owner_tokens' = AddToNewOwner(removed, to_addr, token_id)
                          /\ UNCHANGED <<pc, err>>
    /\ UNCHANGED <<holders, json_file, csv_file>>
    /\ UNCHANGED <<zoo, calls, lux, xchain, purchases>>

\* one iteration of the loop of line 15
ProcessTransfer ==
    /\ pc = "replay"
    /\ Len(transfers) < MaxEvents
    /\ \E transfer \in Events :
         /\ transfers' = Append(transfers, transfer)
         /\ IF Outcome(transfer) = "skip"
            THEN UNCHANGED <<nft_owners, owner_tokens, pc, err>>
            ELSE IF Outcome(transfer) = "ValueError"
            THEN /\ pc' = "error"
                 /\ err' = "ValueError"
                 /\ UNCHANGED <<nft_owners, owner_tokens>>
            ELSE LET to_addr == AddrOf(transfer.topics[3])
                     token_id == HexInt(transfer.topics[4])
                     removed == RemoveFromPrevOwner(nft_owners, owner_tokens, token_id)
                 IN  /\ nft_owners' = SetOwner(nft_owners, to_addr, token_id)
                     /\ owner_tokens' = AddToNewOwner(removed, to_addr, token_id)
                     /\ UNCHANGED <<pc, err>>
    /\ UNCHANGED <<holders, json_file, csv_file>>
    /\ UNCHANGED <<zoo, calls, lux, xchain, purchases>>

----------------------------------------------------------------------------
(* The holder summary, lines 32-43 *)

\* the list with x put before the first element greater than x
RECURSIVE InsertAsc(_, _)
InsertAsc(s, x) ==
    IF Len(s) = 0 THEN <<x>>
    ELSE IF x < Head(s) THEN <<x>> \o s
    ELSE <<Head(s)>> \o InsertAsc(Tail(s), x)

\* sorted(tokens)
RECURSIVE Sorted(_)
Sorted(tokens) ==
    IF Len(tokens) = 0 THEN <<>>
    ELSE InsertAsc(Sorted(SubSeq(tokens, 1, Len(tokens) - 1)), tokens[Len(tokens)])

\* HolderEntries without the test of line 35
RECURSIVE M_HolderEntries_NoFilter(_)
M_HolderEntries_NoFilter(ot) ==
    IF Len(ot) = 0 THEN <<>>
    ELSE <<[address    |-> Head(ot).owner,
            tokenIds   |-> Sorted(Head(ot).tokens),
            tokenCount |-> Len(Head(ot).tokens)]>> \o M_HolderEntries_NoFilter(Tail(ot))

\* lines 34-40: one entry for each key with a non-empty list, in key order
RECURSIVE HolderEntries(_)
HolderEntries(ot) ==
    IF Len(ot) = 0 THEN <<>>
    ELSE LET rest == HolderEntries(Tail(ot))
         IN  IF Len(Head(ot).tokens) > 0
             THEN <<[address    |-> Head(ot).owner,
                     tokenIds   |-> Sorted(Head(ot).tokens),
                     tokenCount |-> Len(Head(ot).tokens)]>> \o rest
             ELSE rest

\* the list with h put after every entry whose tokenCount is >= h's
RECURSIVE InsertByCount(_, _)
InsertByCount(s, h) ==
    IF Len(s) = 0 THEN <<h>>
    ELSE IF Head(s).tokenCount < h.tokenCount THEN <<h>> \o s
    ELSE <<Head(s)>> \o InsertByCount(Tail(s), h)

\* the list with h put after every entry whose tokenCount is <= h's
RECURSIVE InsertByCountAsc(_, _)
InsertByCountAsc(s, h) ==
    IF Len(s) = 0 THEN <<h>>
    ELSE IF Head(s).tokenCount > h.tokenCount THEN <<h>> \o s
    ELSE <<Head(s)>> \o InsertByCountAsc(Tail(s), h)

\* SortByCountDesc without reverse=True
RECURSIVE M_SortByCountDesc_NoReverse(_)
M_SortByCountDesc_NoReverse(hs) ==
    IF Len(hs) = 0 THEN <<>>
    ELSE InsertByCountAsc(M_SortByCountDesc_NoReverse(SubSeq(hs, 1, Len(hs) - 1)), hs[Len(hs)])

\* the list with h put before the first entry whose tokenCount is <= h's
RECURSIVE InsertBeforeEqual(_, _)
InsertBeforeEqual(s, h) ==
    IF Len(s) = 0 THEN <<h>>
    ELSE IF Head(s).tokenCount <= h.tokenCount THEN <<h>> \o s
    ELSE <<Head(s)>> \o InsertBeforeEqual(Tail(s), h)

\* SortByCountDesc as sorted(holders, key=tokenCount) reversed afterwards:
\* entries with equal keys come out in reverse order
RECURSIVE M_SortByCountDesc_ReversedTies(_)
M_SortByCountDesc_ReversedTies(hs) ==
    IF Len(hs) = 0 THEN <<>>
    ELSE InsertBeforeEqual(M_SortByCountDesc_ReversedTies(SubSeq(hs, 1, Len(hs) - 1)), hs[Len(hs)])

\* line 43: list.sort(key=tokenCount, reverse=True), a stable sort: entries
\* with equal keys keep their order
RECURSIVE SortByCountDesc(_)
SortByCountDesc(hs) ==
    IF Len(hs) = 0 THEN <<>>
    ELSE InsertByCount(SortByCountDesc(SubSeq(hs, 1, Len(hs) - 1)), hs[Len(hs)])

\* lines 33-40, once the loop has run out of events
CreateHolderSummary ==
    /\ pc = "replay"
    /\ holders' = HolderEntries(owner_tokens)
    /\ pc' = "summary"
    /\ UNCHANGED <<transfers, nft_owners, owner_tokens, json_file, csv_file, err>>
    /\ UNCHANGED <<zoo, calls, lux, xchain, purchases>>

\* line 43
SortHolders ==
    /\ pc = "summary"
    /\ holders' = SortByCountDesc(holders)
    /\ pc' = "sorted"
    /\ UNCHANGED <<transfers, nft_owners, owner_tokens, json_file, csv_file, err>>
    /\ UNCHANGED <<zoo, calls, lux, xchain, purchases>>

----------------------------------------------------------------------------
(* Saving the results, lines 45-61 *)

\* line 50 (and line 61): len(nft_owners)
total_nfts == Cardinality(DOMAIN nft_owners)

\* line 49: len(holders)
total_holders == Len(holders)

\* str(n) for n >= 0
RECURSIVE Str(_)
Str(n) ==
    LET digit == <<"0", "1", "2", "3", "4", "5", "6", "7", "8", "9">>[(n % 10) + 1]
    IN  IF n < 10 THEN <<digit>> ELSE Str(n \div 10) \o <<digit>>

\* sep.join(parts)
RECURSIVE Join(_, _)
Join(parts, sep) ==
    IF Len(parts) = 0 THEN <<>>
    ELSE IF Len(parts) = 1 THEN parts[1]
    ELSE parts[1] \o <<sep>> \o Join(Tail(parts), sep)

\* lines 58-59: the line written for one holder
CsvLine(holder) ==
    holder.address \o <<",">> \o Str(holder.tokenCount) \o <<",">>
        \o Join([i \in 1..Len(holder.tokenIds) |-> Str(holder.tokenIds[i])], ";")

\* lines 56-59: the header and one line for each holder
CsvLines(hs) ==
    <<"address,token_count,token_ids">> \o [i \in 1..Len(hs) |-> CsvLine(hs[i])]

\* lines 46-52: open(..., 'w') creates or empties the file; the dict handed
\* to json.dump is then built, and its first value is the name
\* FINALIZED_BLOCK, which nothing in the script binds: NameError.  Nothing
\* is written, and lines 54-61 (the CSV file, the final print) never run.
SaveResults ==
    /\ pc = "sorted"
    /\ json_file' = "empty"
    /\ pc' = "error"
    /\ err' = "NameError"
    /\ UNCHANGED <<transfers, nft_owners, owner_tokens, holders, csv_file>>
    /\ UNCHANGED <<zoo, calls, lux, xchain, purchases>>

----------------------------------------------------------------------------

\* the script after lines 7-12
NftInit ==
    /\ transfers = <<>>
    /\ nft_owners = <<>>
    /\ owner_tokens = <<>>
    /\ holders = <<>>
    /\ json_file = "untouched"
    /\ csv_file = "untouched"
    /\ pc = "replay"
    /\ err = "none"

Init ==
    /\ NftInit
    /\ zoo = NotRunning
    /\ calls = NotRunning
    /\ lux = NotRunning
    /\ xchain = NotRunning
    /\ purchases = NotRunning

Next == ProcessTransfer \/ CreateHolderSummary \/ SortHolders \/ SaveResults

Spec == Init /\ [][Next]_vars

----------------------------------------------------------------------------
(* scripts/get-zoo-burns-efficient.py: the batch loop of scan_zoo_burns,   *)
(* lines 110-127.  The logs that scan_burns_in_range returns are not       *)
(* modelled, only the block range each call is made for.                   *)

\* line 105
start_block == 14000000

\* line 112
batch_size == 5000

\* latest_block is at most start_block + MaxSpan
MaxSpan == 10001

Min(a, b) == IF a < b THEN a ELSE b

\* line 115
ToBlock(from_block, latest_block) == Min(from_block + batch_size - 1, latest_block)

\* line 100: w3.eth.block_number, any block from start_block on
ZooInit ==
    /\ \E latest_block \in start_block..(start_block + MaxSpan) :
           zoo = [latest_block |-> latest_block,
                  from_block   |-> start_block,
                  queried      |-> <<>>,
                  pc           |-> "loop"]
    /\ NftInit
    /\ calls = NotRunning
    /\ lux = NotRunning
    /\ xchain = NotRunning
    /\ purchases = NotRunning

\* lines 114-127: one iteration of range(start_block, latest_block, batch_size);
\* zoo.from_block is the next value of the range
ScanBatch ==
    /\ zoo.pc = "loop"
    /\ zoo.from_block < zoo.latest_block
    /\ zoo' = [zoo EXCEPT
                 !.queried = Append(@, [from_block |-> zoo.from_block,
                                        to_block   |-> ToBlock(zoo.from_block, zoo.latest_block)]),
                 !.from_block = @ + batch_size]
    /\ UNCHANGED <<nftVars, calls, lux, xchain, purchases>>

\* line 114: the range is exhausted, the loop ends (line 129)
BatchesDone ==
    /\ zoo.pc = "loop"
    /\ zoo.from_block >= zoo.latest_block
    /\ zoo' = [zoo EXCEPT !.pc = "scanned"]
    /\ UNCHANGED <<nftVars, calls, lux, xchain, purchases>>

ZooNext == ScanBatch \/ BatchesDone

SpecZoo == ZooInit /\ [][ZooNext]_vars

----------------------------------------------------------------------------
(* scripts/get-zoo-burns-efficient.py: scan_burns_in_range, lines 34-57.   *)
(* calls.stack is the chain of active calls, the innermost last; each call *)
(* is waiting for get_logs, for its first half ("logs1") or for its second *)
(* half ("logs2").  calls.logs lists the ranges whose logs were returned,  *)
(* in the order of logs1 + logs2.  One action is one call of get_logs and  *)
(* everything that follows it up to the next call of get_logs.             *)

\* the outermost call is for a range within start_block..start_block + MaxWidth
MaxWidth == 3

\* the recursion is followed to MaxDepth nested calls (Python follows it to
\* its recursion limit)
MaxDepth == 5

Call(from_block, to_block) ==
    [from_block |-> from_block, to_block |-> to_block, at |-> "get_logs"]

\* line 51
Mid(call) == (call.from_block + call.to_block) \div 2

\* lines 52-53: the two recursive calls of a call
FirstHalf(call) == Call(call.from_block, Mid(call))

SecondHalf(call) == Call(Mid(call) + 1, call.to_block)

\* the innermost call returns (line 47, 54 or 57): its caller goes on to its
\* second half (line 53) or returns in turn (line 54)
RECURSIVE Return(_)
Return(stack) ==
    LET rest == SubSeq(stack, 1, Len(stack) - 1)
    IN  IF rest = <<>> THEN <<>>
        ELSE LET caller == rest[Len(rest)]
             IN  IF caller.at = "logs1"
                 THEN Append([rest EXCEPT ![Len(rest)].at = "logs2"], SecondHalf(caller))
                 ELSE Return(rest)

RangeInit ==
    /\ \E from_block \in start_block..(start_block + MaxWidth) :
       \E to_block \in from_block..(start_block + MaxWidth) :
           calls = [stack |-> <<Call(from_block, to_block)>>, logs |-> <<>>]
    /\ NftInit
    /\ zoo = NotRunning
    /\ lux = NotRunning
    /\ xchain = NotRunning
    /\ purchases = NotRunning

Innermost == calls.stack[Len(calls.stack)]

\* lines 37-47: get_logs answers
GetLogsReturns ==
    /\ calls.stack # <<>>
    /\ calls' = [stack |-> Return(calls.stack),
                 logs  |-> Append(calls.logs, <<Innermost.from_block, Innermost.to_block>>)]
    /\ UNCHANGED <<nftVars, zoo, lux, xchain, purchases>>

\* lines 48-53: get_logs raises "limit exceeded" or "query returned more than"
GetLogsLimitExceeded ==
    /\ calls.stack # <<>>
    /\ Len(calls.stack) < MaxDepth
    /\ calls' = [calls EXCEPT
                   !.stack = Append([@ EXCEPT ![Len(@)].at = "logs1"], FirstHalf(Innermost))]
    /\ UNCHANGED <<nftVars, zoo, lux, xchain, purchases>>

\* lines 55-57: get_logs raises anything else; the call returns []
GetLogsOtherError ==
    /\ calls.stack # <<>>
    /\ calls' = [calls EXCEPT !.stack = Return(@)]
    /\ UNCHANGED <<nftVars, zoo, lux, xchain, purchases>>

RangeNext == GetLogsReturns \/ GetLogsLimitExceeded \/ GetLogsOtherError

SpecRange == RangeInit /\ [][RangeNext]_vars

----------------------------------------------------------------------------
(* scripts/get-lux-nft-holders-efficient.py: scan_lux_nft_holders, lines   *)
(* 83-165.  An answer of ownerOf is an owner address, an exception whose   *)
(* lowered text holds "nonexistent token" or "invalid token" (line 116),   *)
(* or any other exception.                                                 *)

\* line 102: the number the failure count is compared with
FailureLimit == 100

\* total_supply is at most MaxSupply
MaxSupply == 103

\* the token ids from MaxMinted on were never minted: ownerOf answers
\* "nonexistent token" for them
MaxMinted == 2

\* str.lower() of one character of an address
LowerChar(c) ==
    CASE c = "A" -> "a" [] c = "B" -> "b" [] c = "C" -> "c"
      [] c = "D" -> "d" [] c = "E" -> "e" [] c = "F" -> "f"
      [] c = "X" -> "x" [] OTHER -> c

\* str.lower()
Lower(str) == [i \in 1..Len(str) |-> LowerChar(str[i])]

\* the addresses ownerOf answers with, as the contract returns them: one
\* address in two spellings, and another address
OwnerAddresses ==
    { Ox \o Rep("0", 38) \o <<"A", "b">>,
      Ox \o Rep("0", 38) \o <<"a", "b">>,
      Ox \o Rep("0", 38) \o <<"c", "d">> }

Nonexistent == [kind |-> "nonexistent", owner |-> <<>>]

OtherError == [kind |-> "other", owner |-> <<>>]

\* line 107: what ownerOf(token_id) can answer
Answers(token_id) ==
    IF token_id >= MaxMinted THEN {Nonexistent}
    ELSE {Nonexistent, OtherError} \cup {[kind |-> "owner", owner |-> a] : a \in OwnerAddresses}

\* line 108: holders[owner.lower()].append(token_id)
AppendToken(hs, owner, token_id) ==
    LET touched == Touch(hs, Lower(owner))
    IN  [touched EXCEPT ![KeyIndex(touched, Lower(owner))].tokens = Append(@, token_id)]

\* lines 83-96: total_supply is the answer of totalSupply()
LuxInit ==
    /\ \E total_supply \in 0..MaxSupply :
           lux = [total_supply         |-> total_supply,
                  token_id             |-> 0,
                  holders              |-> <<>>,
                  burned               |-> <<>>,
                  last_valid_token     |-> 0,
                  consecutive_failures |-> 0,
                  pc                   |-> "scan",
                  results              |-> "none"]
    /\ NftInit
    /\ zoo = NotRunning
    /\ calls = NotRunning
    /\ xchain = NotRunning
    /\ purchases = NotRunning

\* lines 101-120: one iteration of the loop that gets past the test of line
\* 102; lux.token_id is the next value of range(total_supply)
LookupOwner ==
    /\ lux.pc = "scan"
    /\ lux.token_id < lux.total_supply
    /\ ~(lux.consecutive_failures > FailureLimit)
    /\ \E answer \in Answers(lux.token_id) :
           lux' = CASE answer.kind = "owner" ->
                         [lux EXCEPT !.holders = AppendToken(@, answer.owner, lux.token_id),
                                     !.last_valid_token = lux.token_id,
                                     !.consecutive_failures = 0,
                                     !.token_id = @ + 1]
                    [] answer.kind = "nonexistent" ->
                         [lux EXCEPT !.consecutive_failures = @ + 1,
                                     !.token_id = @ + 1]
                    [] OTHER ->
                         [lux EXCEPT !.burned = Append(@, lux.token_id),
                                     !.consecutive_failures = 0,
                                     !.token_id = @ + 1]
    /\ UNCHANGED <<nftVars, zoo, calls, xchain, purchases>>

\* lines 102-104: the break
StopScanning ==
    /\ lux.pc = "scan"
    /\ lux.token_id < lux.total_supply
    /\ lux.consecutive_failures > FailureLimit
    /\ lux' = [lux EXCEPT !.pc = "results"]
    /\ UNCHANGED <<nftVars, zoo, calls, xchain, purchases>>

\* line 101: range(total_supply) is exhausted
SupplyScanned ==
    /\ lux.pc = "scan"
    /\ lux.token_id >= lux.total_supply
    /\ lux' = [lux EXCEPT !.pc = "results"]
    /\ UNCHANGED <<nftVars, zoo, calls, xchain, purchases>>

\* line 123
actual_total == lux.last_valid_token + 1

\* lines 142-148
RECURSIVE HolderData(_)
HolderData(hs) ==
    IF Len(hs) = 0 THEN <<>>
    ELSE <<[address            |-> Head(hs).owner,
            token_count        |-> Len(Head(hs).tokens),
            token_ids          |-> Sorted(Head(hs).tokens),
            validator_eligible |-> TRUE]>> \o HolderData(Tail(hs))

\* lines 153-161
DistributionKey(count) ==
    IF count = 1 THEN "1 NFT"
    ELSE IF count <= 5 THEN "2-5 NFTs"
    ELSE IF count <= 10 THEN "6-10 NFTs"
    ELSE "11+ NFTs"

\* lines 152-163: for each key in use, the number of holders under it
Distribution(data) ==
    LET keys == {DistributionKey(data[i].token_count) : i \in 1..Len(data)}
    IN  [key \in keys |->
            Cardinality({i \in 1..Len(data) : DistributionKey(data[i].token_count) = key})]

\* lines 122-165
PrepareResults ==
    /\ lux.pc = "results"
    /\ LET data == HolderData(lux.holders)
       IN  lux' = [lux EXCEPT
                     !.pc = "returned",
                     !.results =
                        [total_supply   |-> actual_total,
                         unique_holders |-> Len(lux.holders),
                         burned_tokens  |-> Len(lux.burned),
                         holders        |-> data,
                         summary        |->
                            [total_nfts_held    |-> actual_total - Len(lux.burned),
                             distribution       |-> Distribution(data),
                             validator_eligible |-> [i \in 1..Len(data) |-> data[i].address]]]]
    /\ UNCHANGED <<nftVars, zoo, calls, xchain, purchases>>

LuxNext == LookupOwner \/ StopScanning \/ SupplyScanned \/ PrepareResults

SpecLux == LuxInit /\ [][LuxNext]_vars

----------------------------------------------------------------------------
(* genesis/X-Chain/generate_allocations.py.  The ZOO allocations file is   *)
(* the one scripts/analyze-egg-discrepancies.py builds and                 *)
(* generate_final_allocations.py passes on: its keys are lower-case        *)
(* addresses, each once, and every entry has a zoo_equivalent.  Amounts in *)
(* nLUX are kept as decimal numerals, since they pass 2^31.                *)

\* lines 35-47
bootstrap_validators ==
    <<
       \* 0x9011E888251AB053B7bD1cdB598Db4f9DEd94714
       <<"0", "x", "9", "0", "1", "1", "E", "8", "8", "8", "2", "5", "1", "A",
         "B", "0", "5", "3", "B", "7", "b", "D", "1", "c", "d", "B", "5", "9",
         "8", "D", "b", "4", "f", "9", "D", "E", "d", "9", "4", "7", "1", "4">>,
       \* 0xEAbCC110fAcBfebabC66Ad6f9E7B67288e720B59
       <<"0", "x", "E", "A", "b", "C", "C", "1", "1", "0", "f", "A", "c", "B",
         "f", "e", "b", "a", "b", "C", "6", "6", "A", "d", "6", "f", "9", "E",
         "7", "B", "6", "7", "2", "8", "8", "e", "7", "2", "0", "B", "5", "9">>,
       \* 0x8d5081153aE1cfb41f5c932fe0b6Beb7E159cF84
       <<"0", "x", "8", "d", "5", "0", "8", "1", "1", "5", "3", "a", "E", "1",
         "c", "f", "b", "4", "1", "f", "5", "c", "9", "3", "2", "f", "e", "0",
         "b", "6", "B", "e", "b", "7", "E", "1", "5", "9", "c", "F", "8", "4">>,
       \* 0xf8f12D0592e6d1bFe92ee16CaBCC4a6F26dAAe23
       <<"0", "x", "f", "8", "f", "1", "2", "D", "0", "5", "9", "2", "e", "6",
         "d", "1", "b", "F", "e", "9", "2", "e", "e", "1", "6", "C", "a", "B",
         "C", "C", "4", "a", "6", "F", "2", "6", "d", "A", "A", "e", "2", "3">>,
       \* 0xFb66808f708e1d4D7D43a8c75596e84f94e06806
       <<"0", "x", "F", "b", "6", "6", "8", "0", "8", "f", "7", "0", "8", "e",
         "1", "d", "4", "D", "7", "D", "4", "3", "a", "8", "c", "7", "5", "5",
         "9", "6", "e", "8", "4", "f", "9", "4", "e", "0", "6", "8", "0", "6">>,
       \* 0x313CF291c069C58D6bd61B0D672673462B8951bD
       <<"0", "x", "3", "1", "3", "C", "F", "2", "9", "1", "c", "0", "6", "9",
         "C", "5", "8", "D", "6", "b", "d", "6", "1", "B", "0", "D", "6", "7",
         "2", "6", "7", "3", "4", "6", "2", "B", "8", "9", "5", "1", "b", "D">>,
       \* 0xf7f52257a6143cE6BbD12A98eF2B0a3d0C648079
       <<"0", "x", "f", "7", "f", "5", "2", "2", "5", "7", "a", "6", "1", "4",
         "3", "c", "E", "6", "B", "b", "D", "1", "2", "A", "9", "8", "e", "F",
         "2", "B", "0", "a", "3", "d", "0", "C", "6", "4", "8", "0", "7", "9">>,
       \* 0xCA92ad0C91bd8DE640B9dAFfEB338ac908725142
       <<"0", "x", "C", "A", "9", "2", "a", "d", "0", "C", "9", "1", "b", "d",
         "8", "D", "E", "6", "4", "0", "B", "9", "d", "A", "F", "f", "E", "B",
         "3", "3", "8", "a", "c", "9", "0", "8", "7", "2", "5", "1", "4", "2">>,
       \* 0xB5B325df519eB58B7223d85aaeac8b56aB05f3d6
       <<"0", "x", "B", "5", "B", "3", "2", "5", "d", "f", "5", "1", "9", "e",
         "B", "5", "8", "B", "7", "2", "2", "3", "d", "8", "5", "a", "a", "e",
         "a", "c", "8", "b", "5", "6", "a", "B", "0", "5", "f", "3", "d", "6">>,
       \* 0xcf5288bEe8d8F63511C389D5015185FDEDe30e54
       <<"0", "x", "c", "f", "5", "2", "8", "8", "b", "E", "e", "8", "d", "8",
         "F", "6", "3", "5", "1", "1", "C", "3", "8", "9", "D", "5", "0", "1",
         "5", "1", "8", "5", "F", "D", "E", "D", "e", "3", "0", "e", "5", "4">>,
       \* 0x16204223fe4470f4B1F1dA19A368dC815736a3d7
       <<"0", "x", "1", "6", "2", "0", "4", "2", "2", "3", "f", "e", "4", "4",
         "7", "0", "f", "4", "B", "1", "F", "1", "d", "A", "1", "9", "A", "3",
         "6", "8", "d", "C", "8", "1", "5", "7", "3", "6", "a", "3", "d", "7">>
    >>

\* a key of KNOWN_HOLDERS that is no validator
\* (scripts/analyze-egg-discrepancies.py, line 11)
KnownHolder ==
    <<"0", "x", "5", "1", "c", "2", "9", "3", "9", "0", "c", "8", "e", "2",
      "4", "b", "a", "a", "a", "9", "2", "f", "e", "a", "0", "6", "c", "e",
      "9", "5", "d", "9", "0", "d", "0", "8", "7", "7", "c", "a", "9", "e">>

\* scripts/analyze-egg-discrepancies.py, line 105
ZooPerEgg == 4200000

\* entries the ZOO allocations file can hold: the two validators and the
\* holder above as KNOWN_HOLDERS lists them, and a validator found by the scan
ZooEntries ==
    { [addr |-> Lower(bootstrap_validators[1]), zoo_equivalent |-> 1 * ZooPerEgg],
      [addr |-> Lower(bootstrap_validators[8]), zoo_equivalent |-> 12 * ZooPerEgg],
      [addr |-> KnownHolder,                    zoo_equivalent |-> 5 * ZooPerEgg],
      [addr |-> Lower(bootstrap_validators[3]), zoo_equivalent |-> 1 * ZooPerEgg] }

\* the file holds at most MaxZooEntries allocations
MaxZooEntries == 3

\* zoo_data['allocations'].items(): the entries of the file in their order,
\* no key twice
ZooAllocationLists ==
    { f \in UNION {[1..n -> ZooEntries] : n \in 0..MaxZooEntries} :
        \A i, j \in 1..Len(f) : f[i].addr = f[j].addr => i = j }

\* the file of line 7: there with its allocations, or missing
ZooFiles ==
    {[found |-> TRUE, allocations |-> f] : f \in ZooAllocationLists}
        \cup {[found |-> FALSE, allocations |-> <<>>]}

\* line 10: zoo_equivalent * 10**9, as a decimal numeral
NLux(zoo_equivalent) ==
    IF zoo_equivalent = 0 THEN <<"0">> ELSE Str(zoo_equivalent) \o Rep("0", 9)

\* line 54: 100000000000000000, as a decimal numeral
ValidatorFunds == <<"1">> \o Rep("0", 17)

\* lines 27-32 and 51-56
Allocation(addr, amount) ==
    [ethAddr        |-> addr,
     avaxAddr       |-> <<"X", "-", "l", "u", "x", "1">> \o SubSeq(addr, 3, Len(addr)),
     initialAmount  |-> amount,
     unlockSchedule |-> <<>>]

\* AlreadyAllocated without the two calls of lower()
M_AlreadyAllocated_CaseSensitive(addr, allocations) ==
    \E i \in 1..Len(allocations) : allocations[i].ethAddr = addr

\* line 50: addr.lower() in [a['ethAddr'].lower() for a in all_allocations]
AlreadyAllocated(addr, allocations) ==
    \E i \in 1..Len(allocations) : Lower(allocations[i].ethAddr) = Lower(addr)

XChainInit ==
    /\ \E file \in ZooFiles :
           xchain = [zoo_file        |-> file,
                     zoo_allocations |-> <<>>,
                     all_allocations |-> <<>>,
                     validator       |-> 1,
                     genesis         |-> "not written",
                     pc              |-> "load"]
    /\ NftInit
    /\ zoo = NotRunning
    /\ calls = NotRunning
    /\ lux = NotRunning
    /\ purchases = NotRunning

\* lines 5-12: a missing file raises inside the try and leaves the dict empty
LoadZooAllocations ==
    /\ xchain.pc = "load"
    /\ xchain' = [xchain EXCEPT
                    !.pc = "combine",
                    !.zoo_allocations =
                        IF ~xchain.zoo_file.found THEN <<>>
                        ELSE [i \in 1..Len(xchain.zoo_file.allocations) |->
                                 [addr   |-> xchain.zoo_file.allocations[i].addr,
                                  amount |-> NLux(xchain.zoo_file.allocations[i].zoo_equivalent)]]]
    /\ UNCHANGED <<nftVars, zoo, calls, lux, purchases>>

\* lines 22-32
AddZooAllocations ==
    /\ xchain.pc = "combine"
    /\ xchain' = [xchain EXCEPT
                    !.pc = "validators",
                    !.all_allocations =
                        [i \in 1..Len(xchain.zoo_allocations) |->
                            Allocation(xchain.zoo_allocations[i].addr,
                                       xchain.zoo_allocations[i].amount)]]
    /\ UNCHANGED <<nftVars, zoo, calls, lux, purchases>>

\* lines 49-56: one iteration of the loop over bootstrap_validators
AddBootstrapValidator ==
    /\ xchain.pc = "validators"
    /\ xchain.validator <= Len(bootstrap_validators)
    /\ LET addr == bootstrap_validators[xchain.validator]
       IN  xchain' = [xchain EXCEPT
                        !.validator = @ + 1,
                        !.all_allocations =
                            IF AlreadyAllocated(addr, @) THEN @
                            ELSE Append(@, Allocation(addr, ValidatorFunds))]
    /\ UNCHANGED <<nftVars, zoo, calls, lux, purchases>>

\* lines 58-68: the template is there, genesis.json is written
SaveGenesis ==
    /\ xchain.pc = "validators"
    /\ xchain.validator > Len(bootstrap_validators)
    /\ xchain' = [xchain EXCEPT !.pc = "done",
                                !.genesis = [allocations |-> xchain.all_allocations]]
    /\ UNCHANGED <<nftVars, zoo, calls, lux, purchases>>

\* line 59: the template is missing, open() raises FileNotFoundError
TemplateMissing ==
    /\ xchain.pc = "validators"
    /\ xchain.validator > Len(bootstrap_validators)
    /\ xchain' = [xchain EXCEPT !.pc = "error"]
    /\ UNCHANGED <<nftVars, zoo, calls, lux, purchases>>

XChainNext ==
    \/ LoadZooAllocations
    \/ AddZooAllocations
    \/ AddBootstrapValidator
    \/ SaveGenesis
    \/ TemplateMissing

SpecXChain == XChainInit /\ [][XChainNext]_vars

----------------------------------------------------------------------------
(* exports/genesis-analysis-20250722-060502/analyze_purchases.py.  An      *)
(* amount of ZOO, in wei, is a Decimal: the record [units, wei] stands for *)
(* units * 10^23 + wei, with wei written as 23 decimal digits, the first   *)
(* the highest.  The arithmetic is the one of the decimal module under its *)
(* default context: a sum and a quotient are rounded to 28 significant     *)
(* digits, half to even.  The float of line 42 is left out.                *)

\* the number of digits of the wei part of an amount
WeiDigits == 23

\* decimal.getcontext().prec, the default
Precision == 28

NoWei == Rep(0, WeiDigits)

\* line 21: Decimal('4200000') * Decimal('10') ** 18, that is 42 * 10^23
ZOO_PER_EGG == [units |-> 42, wei |-> NoWei]

\* the carry out of the digits after position i of a + b
RECURSIVE CarryInto(_, _, _)
CarryInto(a, b, i) ==
    IF i = Len(a) THEN 0
    ELSE (a[i + 1] + b[i + 1] + CarryInto(a, b, i + 1)) \div 10

\* x + y, all digits kept
ExactSum(x, y) ==
    [units |-> x.units + y.units + CarryInto(x.wei, y.wei, 0),
     wei   |-> [i \in 1..WeiDigits |-> (x.wei[i] + y.wei[i] + CarryInto(x.wei, y.wei, i)) % 10]]

\* the number of digits of x that do not fit the precision
Dropped(x) ==
    IF x.units = 0 \/ Len(Str(x.units)) + WeiDigits <= Precision THEN 0
    ELSE Len(Str(x.units)) + WeiDigits - Precision

\* x rounded to the precision, half to even
Rounded(x) ==
    LET k    == Dropped(x)
        last == WeiDigits - k
        tail == SubSeq(x.wei, last + 1, WeiDigits)
        up   == \/ tail[1] > 5
                \/ /\ tail[1] = 5
                   /\ \/ \E i \in 2..k : tail[i] # 0
                      \/ x.wei[last] % 2 = 1
        cut  == [x EXCEPT !.wei = [i \in 1..WeiDigits |-> IF i <= last THEN x.wei[i] ELSE 0]]
        one  == [units |-> 0, wei |-> [i \in 1..WeiDigits |-> IF i = last THEN 1 ELSE 0]]
    IN  IF k = 0 THEN x
        ELSE IF up THEN ExactSum(cut, one)
        ELSE cut

\* line 32: Decimal + Decimal
DecimalSum(x, y) == Rounded(ExactSum(x, y))

\* the first n digits after the point of (rem * 10^23 + wei) / ZOO_PER_EGG,
\* by long division; rem is below ZOO_PER_EGG.units
RECURSIVE FractionDigits(_, _, _)
FractionDigits(rem, wei, n) ==
    IF n = 0 THEN <<>>
    ELSE LET t == rem * 10 + wei[1]
         IN  <<t \div ZOO_PER_EGG.units>>
                 \o FractionDigits(t % ZOO_PER_EGG.units, Tail(wei) \o <<0>>, n - 1)

\* line 37: int(zoo_amount / ZOO_PER_EGG).  The quotient keeps Precision
\* digits; it is the next whole number when every kept digit after the
\* point is 9 and the first digit not kept is 5 or more
Eggs(zoo_amount) ==
    LET whole == zoo_amount.units \div ZOO_PER_EGG.units
        kept  == Precision - (IF whole = 0 THEN 0 ELSE Len(Str(whole)))
        after == FractionDigits(zoo_amount.units % ZOO_PER_EGG.units, zoo_amount.wei, kept + 1)
    IN  IF (\A i \in 1..kept : after[i] = 9) /\ after[kept + 1] >= 5
        THEN whole + 1
        ELSE whole

\* the addresses of the senders as the transfers spell them: one address in
\* two spellings, and another address
BuyerAddresses ==
    { Ox \o Rep("0", 38) \o <<"E", "1">>,
      Ox \o Rep("0", 38) \o <<"e", "1">>,
      Ox \o Rep("0", 38) \o <<"f", "2">> }

\* the amounts of the transfers: the price of half an egg, of one egg, of
\* 1001 eggs less one wei, and one wei
Amounts ==
    { [units |-> 21, wei |-> NoWei],
      [units |-> 42, wei |-> NoWei],
      [units |-> 1001 * 42 - 1, wei |-> Rep(9, WeiDigits)],
      [units |-> 0, wei |-> [i \in 1..WeiDigits |-> IF i = WeiDigits THEN 1 ELSE 0]] }

\* purchase_data['transfers'] has at most MaxTransfers transfers
MaxTransfers == 2

PurchaseTransfers ==
    UNION {[1..n -> [from : BuyerAddresses, amount : Amounts]] : n \in 0..MaxTransfers}

\* nft_data['holders'] of egg_nft_holders.json: no address twice
EggHolderFiles ==
    LET entries == { [addr |-> Ox \o Rep("0", 38) \o <<"e", "1">>, token_count |-> 1],
                     [addr |-> Ox \o Rep("0", 38) \o <<"E", "1">>, token_count |-> 1000],
                     [addr |-> Ox \o Rep("0", 38) \o <<"f", "2">>, token_count |-> 1001] }
    IN  { f \in UNION {[1..n -> entries] : n \in 0..2} :
            \A i, j \in 1..Len(f) : Lower(f[i].addr) = Lower(f[j].addr) => i = j }

\* lines 6-16: zoo_egg_purchases.json is there or not
PurchasesInit ==
    /\ \E found \in BOOLEAN :
       \E transfers_in \in (IF found THEN PurchaseTransfers ELSE {<<>>}) :
       \E file \in EggHolderFiles :
           purchases = [found          |-> found,
                        transfers      |-> transfers_in,
                        holders_file   |-> file,
                        next           |-> 1,
                        purchasers     |-> <<>>,
                        eggs_purchased |-> <<>>,
                        discrepancies  |-> <<>>,
                        results        |-> "none",
                        pc             |-> "load"]
    /\ NftInit
    /\ zoo = NotRunning
    /\ calls = NotRunning
    /\ lux = NotRunning
    /\ xchain = NotRunning

\* lines 10-12
NoPurchaseData ==
    /\ purchases.pc = "load"
    /\ ~purchases.found
    /\ purchases' = [purchases EXCEPT !.pc = "exit"]
    /\ UNCHANGED <<nftVars, zoo, calls, lux, xchain>>

\* lines 7-9 and 14-24
LoadPurchaseData ==
    /\ purchases.pc = "load"
    /\ purchases.found
    /\ purchases' = [purchases EXCEPT !.pc = "transfers"]
    /\ UNCHANGED <<nftVars, zoo, calls, lux, xchain>>

\* lines 30-32
AddPayment(ps, buyer, amount) ==
    LET known == \E i \in 1..Len(ps) : ps[i].buyer = buyer
        start == IF known THEN ps
                 ELSE Append(ps, [buyer |-> buyer, zoo_amount |-> [units |-> 0, wei |-> NoWei]])
        at    == CHOOSE i \in 1..Len(start) : start[i].buyer = buyer
    IN  [start EXCEPT ![at].zoo_amount = DecimalSum(@, amount)]

\* lines 26-32: one transfer
ProcessPurchase ==
    /\ purchases.pc = "transfers"
    /\ purchases.next <= Len(purchases.transfers)
    /\ LET transfer == purchases.transfers[purchases.next]
       IN  purchases' = [purchases EXCEPT
                           !.next = @ + 1,
                           !.purchasers = AddPayment(@, Lower(transfer.from), transfer.amount)]
    /\ UNCHANGED <<nftVars, zoo, calls, lux, xchain>>

\* lines 36-43
RECURSIVE EggsPurchased(_)
EggsPurchased(ps) ==
    IF Len(ps) = 0 THEN <<>>
    ELSE (IF Eggs(Head(ps).zoo_amount) > 0
          THEN <<[buyer          |-> Head(ps).buyer,
                  zoo_paid       |-> Head(ps).zoo_amount,
                  eggs_purchased |-> Eggs(Head(ps).zoo_amount)]>>
          ELSE <<>>) \o EggsPurchased(Tail(ps))

\* lines 34-47
CalculateEggs ==
    /\ purchases.pc = "transfers"
    /\ purchases.next > Len(purchases.transfers)
    /\ purchases' = [purchases EXCEPT !.pc = "compare",
                                      !.eggs_purchased = EggsPurchased(purchases.purchasers)]
    /\ UNCHANGED <<nftVars, zoo, calls, lux, xchain>>

\* line 50 and line 57: buyer in nft_holders
IsEggHolder(file, buyer) == \E i \in 1..Len(file) : Lower(file[i].addr) = buyer

\* lines 50 and 58: nft_holders[buyer]['token_count']; the last entry of the
\* file under a key is the one the dict keeps
HeldCount(file, buyer) ==
    LET at == CHOOSE i \in 1..Len(file) :
                  /\ Lower(file[i].addr) = buyer
                  /\ \A j \in (i + 1)..Len(file) : Lower(file[j].addr) # buyer
    IN  file[at].token_count

\* lines 56-75
RECURSIVE Discrepancies(_, _)
Discrepancies(eggs, file) ==
    IF Len(eggs) = 0 THEN <<>>
    ELSE LET buyer     == Head(eggs).buyer
             purchased == Head(eggs).eggs_purchased
         IN  (IF IsEggHolder(file, buyer)
              THEN IF HeldCount(file, buyer) # purchased
                   THEN <<[address    |-> buyer,
                           purchased  |-> purchased,
                           held       |-> HeldCount(file, buyer),
                           difference |-> purchased - HeldCount(file, buyer)]>>
                   ELSE <<>>
              ELSE <<[address    |-> buyer,
                      purchased  |-> purchased,
                      held       |-> 0,
                      difference |-> purchased]>>) \o Discrepancies(Tail(eggs), file)

\* lines 49-75
CompareWithHolders ==
    /\ purchases.pc = "compare"
    /\ purchases' = [purchases EXCEPT
                       !.pc = "save",
                       !.discrepancies = Discrepancies(purchases.eggs_purchased,
                                                       purchases.holders_file)]
    /\ UNCHANGED <<nftVars, zoo, calls, lux, xchain>>

\* line 83: sum(e['eggs_purchased'] for e in eggs_purchased.values())
RECURSIVE TotalEggsPurchased(_)
TotalEggsPurchased(eggs) ==
    IF Len(eggs) = 0 THEN 0
    ELSE Head(eggs).eggs_purchased + TotalEggsPurchased(Tail(eggs))

\* line 84: sum(h['token_count'] for h in nft_holders.values()); an entry of
\* the file counts when no later entry has its lowered key
RECURSIVE TotalDelivered(_)
TotalDelivered(file) ==
    IF Len(file) = 0 THEN 0
    ELSE (IF IsEggHolder(Tail(file), Lower(Head(file).addr)) THEN 0
          ELSE Head(file).token_count) + TotalDelivered(Tail(file))

\* line 85: sum(d['difference'] for d in discrepancies if d['difference'] > 0)
RECURSIVE TotalUndelivered(_)
TotalUndelivered(ds) ==
    IF Len(ds) = 0 THEN 0
    ELSE (IF Head(ds).difference > 0 THEN Head(ds).difference ELSE 0)
             + TotalUndelivered(Tail(ds))

\* lines 77-90
SaveAnalysis ==
    /\ purchases.pc = "save"
    /\ purchases' = [purchases EXCEPT
                       !.pc = "saved",
                       !.results =
                          [purchases     |-> purchases.eggs_purchased,
                           discrepancies |-> purchases.discrepancies,
                           summary       |->
                              [total_purchasers     |-> Len(purchases.eggs_purchased),
                               total_eggs_purchased |-> TotalEggsPurchased(purchases.eggs_purchased),
                               total_delivered      |-> TotalDelivered(purchases.holders_file),
                               total_undelivered    |-> TotalUndelivered(purchases.discrepancies)]]]
    /\ UNCHANGED <<nftVars, zoo, calls, lux, xchain>>

PurchasesNext ==
    \/ NoPurchaseData
    \/ LoadPurchaseData
    \/ ProcessPurchase
    \/ CalculateEggs
    \/ CompareWithHolders
    \/ SaveAnalysis

SpecPurchases == PurchasesInit /\ [][PurchasesNext]_vars

----------------------------------------------------------------------------
(* Reading the replayed events back, for the properties below *)

\* the events that reach lines 21-30: four topics and a hex token id
WellFormed(ev) == HasFourTopics(ev) /\ IsHexInt(ev.topics[4])

EvTo(ev) == AddrOf(ev.topics[3])

EvFrom(ev) == AddrOf(ev.topics[2])

EvToken(ev) == HexInt(ev.topics[4])

TokenIds == {HexInt(k) : k \in {x \in TokenTopics : IsHexInt(x)}}

Addresses == {AddrOf(t) : t \in ToTopics \cup FromTopics}

\* what the loop reads from each event of the input alphabet
Read ==
    [ev \in Events |->
        IF WellFormed(ev)
        THEN [ok |-> TRUE, from |-> EvFrom(ev), to |-> EvTo(ev), token |-> EvToken(ev)]
        ELSE [ok |-> FALSE]]

\* what the loop has read from the events so far
Seen == [i \in 1..Len(transfers) |-> Read[transfers[i]]]

\* positions, among the first n events of rs, of the events for token t
EventsFor(rs, t, n) == {i \in 1..n : rs[i].ok /\ rs[i].token = t}

Max(S) == CHOOSE m \in S : \A k \in S : k <= m

\* the receiver of the last event for t among the first n events of rs; the
\* zero address when there is none
LastTo(rs, t, n) ==
    LET E == EventsFor(rs, t, n)
    IN  IF E = {} THEN ZERO_ADDRESS ELSE rs[Max(E)].to

\* the tokens in the list of address X, as a set
HeldBy(ot, X) == IF HasKey(ot, X) THEN Range(TokensOf(ot, X)) ELSE {}

\* the tokens the summary lists for address X
ListedFor(hs, X) == UNION {Range(hs[i].tokenIds) : i \in {j \in 1..Len(hs) : hs[j].address = X}}

\* how often x occurs in a list
RECURSIVE Occurrences(_, _)
Occurrences(s, x) ==
    IF Len(s) = 0 THEN 0
    ELSE (IF Head(s) = x THEN 1 ELSE 0) + Occurrences(Tail(s), x)

\* how often token t occurs in all the lists of owner_tokens together
RECURSIVE TimesHeld(_, _)
TimesHeld(ot, t) ==
    IF Len(ot) = 0 THEN 0
    ELSE Occurrences(Head(ot).tokens, t) + TimesHeld(Tail(ot), t)

\* the sum of the lengths of all the lists of owner_tokens
RECURSIVE TotalHeld(_)
TotalHeld(ot) ==
    IF Len(ot) = 0 THEN 0 ELSE Len(Head(ot).tokens) + TotalHeld(Tail(ot))

\* the summary has been built
SummaryBuilt == pc \in {"summary", "sorted"} \/ err = "NameError"

\* the summary has been sorted
SummarySorted == pc = "sorted" \/ err = "NameError"

\* this step is an iteration of the replay loop
ReplayStep == Len(transfers') = Len(transfers) + 1

----------------------------------------------------------------------------
\* C1: at every point of the replay, and in the summary built from it, token
\* t is held by address X exactly when the last event for t so far has
\* toAddress X and X is not the zero address.
C1_TerminalOwnership ==
    LET rs == Seen
        n == Len(transfers)
    IN  \A t \in TokenIds :
            LET last == LastTo(rs, t, n)
            IN  \A X \in Addresses :
                    LET owned == X # ZERO_ADDRESS /\ last = X
                    IN  /\ t \in HeldBy(owner_tokens, X) <=> owned
                        /\ SummaryBuilt => (t \in ListedFor(holders, X) <=> owned)

\* the example of the claim: a transfer to one address and then a transfer on
\* to another, of the same token, leave exactly {second: [token], count 1}
C1_Witness ==
    /\ pc = "sorted"
    /\ Len(transfers) = 2
    /\ LET e1 == Read[transfers[1]]
           e2 == Read[transfers[2]]
       IN  /\ e1.ok /\ e2.ok
           /\ e1.to # ZERO_ADDRESS
           /\ e2.to \notin {ZERO_ADDRESS, e1.to}
           /\ e1.token = e2.token
           /\ holders = <<[address |-> e2.to, tokenIds |-> <<e2.token>>,
                           tokenCount |-> 1]>>

\* C2: after every event, every tokenId is in at most one owner's list, and
\* at most once in it.
C2_Exclusivity == \A t \in TokenIds : TimesHeld(owner_tokens, t) <= 1

\* a token that was burned and minted again, or transferred to its holder,
\* and is held once
C2_Witness ==
    LET rs == Seen
    IN  \E t \in TokenIds :
            /\ Cardinality(EventsFor(rs, t, Len(rs))) = 3
            /\ \E i \in EventsFor(rs, t, Len(rs)) :
                  /\ i < Len(rs)
                  /\ rs[i].to \in {ZERO_ADDRESS, LastTo(rs, t, i - 1)}
            /\ TimesHeld(owner_tokens, t) = 1

\* C3: nft_owners has no entry for a token without an owner: a token whose
\* latest event is a burn, or that never went to a non-zero address, is not a
\* key of the mapping.
C3_NoEntryWithoutOwner ==
    LET rs == Seen
    IN  \A t \in DOMAIN nft_owners : LastTo(rs, t, Len(rs)) # ZERO_ADDRESS

\* the owner_tokens keys and the summary addresses exclude the zero address
NoZeroKey ==
    /\ \A i \in 1..Len(owner_tokens) : owner_tokens[i].owner # ZERO_ADDRESS
    /\ \A i \in 1..Len(holders) : holders[i].address # ZERO_ADDRESS

\* this step replays a burn event
BurnStep ==
    /\ ReplayStep
    /\ Read[transfers'[Len(transfers')]].ok
    /\ Read[transfers'[Len(transfers')]].to = ZERO_ADDRESS

\* C4 as stated: every burn event decreases the total number of held tokens
\* by exactly one, and the zero address is never a key of the summary.
C4_EveryBurnDecreasesTotal ==
    /\ [][BurnStep => TotalHeld(owner_tokens') = TotalHeld(owner_tokens) - 1]_vars
    /\ []NoZeroKey

\* C4 amended: a burn event of a token that is held decreases the total
\* number of held tokens by exactly one, a burn event of a token nobody holds
\* leaves the total as it is, and the zero address is never a key of the
\* summary.
C4_BurnOfHeldTokenDecreasesTotal ==
    /\ [][BurnStep =>
            LET t == Read[transfers'[Len(transfers')]].token
            IN  TotalHeld(owner_tokens') =
                    TotalHeld(owner_tokens) - (IF TimesHeld(owner_tokens, t) > 0 THEN 1 ELSE 0)]_vars
    /\ []NoZeroKey

\* the last event burned a token that was held, and another token is still held
C4_Witness ==
    LET rs == Seen
        n == Len(rs)
    IN  /\ n >= 2
        /\ rs[n].ok
        /\ rs[n].to = ZERO_ADDRESS
        /\ LastTo(rs, rs[n].token, n - 1) # ZERO_ADDRESS
        /\ TotalHeld(owner_tokens) = 1

\* every token that has an event has a burn as its last event
AllBurned ==
    LET rs == Seen
    IN  \A t \in TokenIds : LastTo(rs, t, Len(rs)) = ZERO_ADDRESS

\* C5: when every token's history ends in a burn, the holder list is empty
\* and total_nfts is 0.
C5_AllBurnedReportsZero ==
    (SummaryBuilt /\ AllBurned) => (holders = <<>> /\ total_nfts = 0)

\* C6: in the summary every holder's tokenCount is the number of distinct
\* tokenIds listed for it, and no address with an empty token list appears.
C6_CountIsNumberOfTokens ==
    SummaryBuilt =>
        /\ \A i \in 1..Len(holders) :
              /\ holders[i].tokenCount = Cardinality(Range(holders[i].tokenIds))
              /\ holders[i].tokenCount = Len(holders[i].tokenIds)
              /\ holders[i].tokenCount > 0
        /\ \A k \in 1..Len(owner_tokens) :
              owner_tokens[k].tokens = <<>> =>
                  \A i \in 1..Len(holders) : holders[i].address # owner_tokens[k].owner

\* an address gave away its only token and is left out, and the address that
\* got it is listed with two tokens
C6_Witness ==
    /\ SummaryBuilt
    /\ \E k \in 1..Len(owner_tokens) : owner_tokens[k].tokens = <<>>
    /\ Len(holders) = 1
    /\ holders[1].tokenCount = 2

\* C7: the sorted holder list has descending token counts.
C7_SortedByCountDescending ==
    SummarySorted =>
        \A i \in 1..(Len(holders) - 1) : holders[i].tokenCount >= holders[i + 1].tokenCount

\* the sort had to move an entry: the keys were not in descending order
C7_Witness ==
    /\ SummarySorted
    /\ Len(holders) = 2
    /\ holders[1].tokenCount > holders[2].tokenCount
    /\ HolderEntries(owner_tokens)[1] = holders[2]

\* code points of the characters of an address
CodePoint ==
    ("0" :> 48) @@ ("1" :> 49) @@ ("2" :> 50) @@ ("3" :> 51) @@ ("4" :> 52) @@
    ("5" :> 53) @@ ("6" :> 54) @@ ("7" :> 55) @@ ("8" :> 56) @@ ("9" :> 57) @@
    ("a" :> 97) @@ ("b" :> 98) @@ ("c" :> 99) @@ ("d" :> 100) @@ ("e" :> 101) @@
    ("f" :> 102) @@ ("g" :> 103) @@ ("x" :> 120)

\* a < b for strings: at the first position where they differ a has the
\* smaller character, or a is a proper prefix of b
StrLess(a, b) ==
    \/ \E i \in 1..Len(a) :
          /\ i <= Len(b)
          /\ \A k \in 1..(i - 1) : a[k] = b[k]
          /\ CodePoint[a[i]] < CodePoint[b[i]]
    \/ Len(a) < Len(b) /\ \A k \in 1..Len(a) : a[k] = b[k]

\* the position of the first event that gave address X a token
FirstReceipt(rs, X) ==
    CHOOSE i \in 1..Len(rs) :
        /\ rs[i].ok /\ rs[i].to = X
        /\ \A k \in 1..(i - 1) : ~(rs[k].ok /\ rs[k].to = X)

\* C8 as stated: holders with equal token counts are in ascending address
\* order.
C8_TiesInAscendingAddressOrder ==
    SummarySorted =>
        \A i \in 1..(Len(holders) - 1) :
            holders[i].tokenCount = holders[i + 1].tokenCount =>
                StrLess(holders[i].address, holders[i + 1].address)

\* C8 amended: holders with equal token counts are in the order in which
\* their addresses first received a token.
C8_TiesInFirstReceiptOrder ==
    SummarySorted =>
        LET rs == Seen
        IN  \A i \in 1..Len(holders) : \A j \in (i + 1)..Len(holders) :
                holders[i].tokenCount = holders[j].tokenCount =>
                    FirstReceipt(rs, holders[i].address) < FirstReceipt(rs, holders[j].address)

\* two holders with equal counts, the greater address first
C8_Witness ==
    /\ SummarySorted
    /\ \E i \in 1..(Len(holders) - 1) :
          /\ holders[i].tokenCount = holders[i + 1].tokenCount
          /\ StrLess(holders[i + 1].address, holders[i].address)

\* an event that lacks a topic or whose token id is no hex number
Malformed(ev) == ~HasFourTopics(ev) \/ ~IsHexInt(ev.topics[4])

\* C9 as stated: once the replay has met a malformed event the run is in
\* error; no malformed event is passed over.
C9_MalformedEventFailsRun ==
    (\E i \in 1..Len(transfers) : Malformed(transfers[i])) => pc = "error"

\* C9 amended: an event with fewer than 4 topics is passed over, the
\* ownership state and the run are as before it; an event with 4 topics and a
\* token id that is no hex number ends the run with ValueError, before the
\* event changes the ownership state.
C9_ShortEventSkippedBadTokenIdFails ==
    [][ReplayStep =>
         LET ev == transfers'[Len(transfers')]
         IN  /\ ~HasFourTopics(ev) =>
                   /\ pc' = "replay" /\ err' = "none"
                   /\ nft_owners' = nft_owners /\ owner_tokens' = owner_tokens
             /\ (HasFourTopics(ev) /\ ~IsHexInt(ev.topics[4])) =>
                   /\ pc' = "error" /\ err' = "ValueError"
                   /\ nft_owners' = nft_owners /\ owner_tokens' = owner_tokens]_vars

\* a short event was passed over, a later event was applied, and then an
\* event with a bad token id ended the run
C9_Witness ==
    /\ Len(transfers) = 3
    /\ ~HasFourTopics(transfers[1])
    /\ nft_owners # <<>>
    /\ HasFourTopics(transfers[3]) /\ ~IsHexInt(transfers[3].topics[4])
    /\ pc = "error" /\ err = "ValueError"

\* C10: for a well-formed event file the run ends without an error and has
\* written both files.
C10_WellFormedRunCompletes ==
    (\A i \in 1..Len(transfers) : ~Malformed(transfers[i])) =>
        /\ err = "none"
        /\ pc = "done" => (json_file = "written" /\ csv_file = "written")

\* C11: after a run the structured record and the CSV file agree on every
\* row: the CSV file is the header and, for each holder of the record in
\* order, the line of its address, token count and token ids, and the
\* holders of the record are the holders of the summary.
C11_RecordAndCsvAgree ==
    err = "NameError" =>
        /\ json_file \notin {"untouched", "empty"}
        /\ csv_file # "untouched"
        /\ json_file.holders = holders
        /\ csv_file = CsvLines(json_file.holders)

\* the receivers other than the zero address that occur in the events
NonBurnReceivers(rs) ==
    {rs[i].to : i \in {j \in 1..Len(rs) : rs[j].ok /\ rs[j].to # ZERO_ADDRESS}}

\* C12: the number of distinct owners in the holder summary is at most the
\* number of distinct non-zero toAddress values of the events.
C12_OwnersAtMostReceivers ==
    SummaryBuilt =>
        Cardinality({holders[i].address : i \in 1..Len(holders)})
            <= Cardinality(NonBurnReceivers(Seen))

\* two receivers, both holders, and a burn event among the events
C12_Witness ==
    /\ SummaryBuilt
    /\ Len(holders) = 2
    /\ Cardinality(NonBurnReceivers(Seen)) = 2
    /\ \E i \in 1..Len(transfers) : Seen[i].ok /\ Seen[i].to = ZERO_ADDRESS

\* this step replays an event for a token that nft_owners records an owner
\* for, and that owner's list does not hold the token
InconsistentStep ==
    /\ ReplayStep
    /\ Read[transfers'[Len(transfers')]].ok
    /\ LET t == Read[transfers'[Len(transfers')]].token
       IN  /\ t \in DOMAIN nft_owners
           /\ t \notin HeldBy(owner_tokens, nft_owners[t])

\* C14: an event for a token whose recorded previous owner does not hold it
\* raises no error, takes no token from any list, and its assignment to a
\* non-zero toAddress is applied.
C14_LookupInconsistencyIsNoOp ==
    [][InconsistentStep =>
         LET r == Read[transfers'[Len(transfers')]]
         IN  /\ pc' = "replay" /\ err' = "none"
             /\ \A X \in Addresses : HeldBy(owner_tokens, X) \subseteq HeldBy(owner_tokens', X)
             /\ r.to # ZERO_ADDRESS =>
                   /\ r.token \in HeldBy(owner_tokens', r.to)
                   /\ nft_owners'[r.token] = r.to]_vars

\* a token was transferred, burned, and then transferred again: the last
\* event met the stale record of the first owner, and the token is held
C14_Witness ==
    LET rs == Seen
    IN  /\ Len(rs) = 3
        /\ rs[1].ok /\ rs[2].ok /\ rs[3].ok
        /\ rs[1].token = rs[2].token /\ rs[2].token = rs[3].token
        /\ rs[1].to # ZERO_ADDRESS
        /\ rs[2].to = ZERO_ADDRESS
        /\ rs[3].to \notin {ZERO_ADDRESS, rs[1].to}
        /\ rs[3].token \in HeldBy(owner_tokens, rs[3].to)
        /\ pc = "replay" /\ err = "none"

\* lines 21-30 for one event as it was read
ApplyRead(st, r) ==
    IF r.ok
    THEN [nft |-> SetOwner(st.nft, r.to, r.token),
          ot  |-> AddToNewOwner(RemoveFromPrevOwner(st.nft, st.ot, r.token), r.to, r.token)]
    ELSE st

\* the loop of line 15 over the events rs, from the empty state
RECURSIVE ReplayOf(_)
ReplayOf(rs) ==
    IF Len(rs) = 0 THEN [nft |-> <<>>, ot |-> <<>>]
    ELSE ApplyRead(ReplayOf(SubSeq(rs, 1, Len(rs) - 1)), rs[Len(rs)])

\* the snapshot: the set of tokens each address holds
Snapshot(ot) == [X \in Addresses |-> HeldBy(ot, X)]

\* rs with its last two events in the other order
SwapLastTwo(rs) ==
    SubSeq(rs, 1, Len(rs) - 2) \o <<rs[Len(rs)], rs[Len(rs) - 1]>>

\* the last two events are for the same token and have different receivers
LastTwoConflict(rs) ==
    /\ Len(rs) >= 2
    /\ rs[Len(rs)].ok /\ rs[Len(rs) - 1].ok
    /\ rs[Len(rs)].token = rs[Len(rs) - 1].token
    /\ rs[Len(rs)].to # rs[Len(rs) - 1].to

\* C15: the replay accepts the events in any order (a sequence of events
\* that all parse raises no error, whatever its order), and the order
\* matters: when the last two events are for the same token and have
\* different receivers, replaying them in the other order gives another
\* snapshot.
C15_AnyOrderAcceptedOrderMatters ==
    LET rs == Seen
    IN  /\ (\A i \in 1..Len(transfers) : Outcome(transfers[i]) # "ValueError")
               => err # "ValueError"
        /\ (pc = "replay" /\ LastTwoConflict(rs))
               => Snapshot(owner_tokens) # Snapshot(ReplayOf(SwapLastTwo(rs)).ot)

\* after a first event, two transfers of one token to two addresses: the
\* token is with the second address, and would be with the first had the
\* two come in the other order
C15_Witness ==
    LET rs == Seen
    IN  /\ pc = "replay"
        /\ Len(rs) = 3
        /\ LastTwoConflict(rs)
        /\ ZERO_ADDRESS \notin {rs[2].to, rs[3].to}
        /\ rs[3].token \in HeldBy(owner_tokens, rs[3].to)
        /\ rs[3].token \in HeldBy(ReplayOf(SwapLastTwo(rs)).ot, rs[2].to)

\* the calls of the batch loop whose range holds block b
BatchesWith(b) ==
    {i \in 1..Len(zoo.queried) : zoo.queried[i].from_block <= b /\ b <= zoo.queried[i].to_block}

\* C16: when the batch loop has ended, every block from start_block through
\* latest_block is in the range of exactly one call of scan_burns_in_range.
C16_EveryBlockInOneBatch ==
    zoo.pc = "scanned" =>
        \A b \in start_block..zoo.latest_block : Cardinality(BatchesWith(b)) = 1

Width(call) == call.to_block - call.from_block

\* C17: scan_burns_in_range bottoms out under every pattern of RPC answers:
\* every nested call is for a range of at least one block that is strictly
\* narrower than the range of its caller, a single-block caller included.
C17_EveryHalfIsNarrower ==
    \A k \in 2..Len(calls.stack) :
        /\ calls.stack[k].from_block <= calls.stack[k].to_block
        /\ Width(calls.stack[k]) < Width(calls.stack[k - 1])

\* a step of the scan that queried ownerOf
Queried == lux'.token_id # lux.token_id

\* C18: once 100 consecutive token ids were reported non-existent no further
\* token id is queried, and a lookup that finds an owner or fails with another
\* error sets the failure count to 0.
C18_NoQueryAfter100Failures ==
    [][ /\ lux.consecutive_failures = FailureLimit => ~Queried
        /\ (Queried /\ (lux'.holders # lux.holders \/ lux'.burned # lux.burned))
               => lux'.consecutive_failures = 0 ]_vars

RECURSIVE SumOfCounts(_)
SumOfCounts(data) ==
    IF Len(data) = 0 THEN 0 ELSE Head(data).token_count + SumOfCounts(Tail(data))

\* C19: in the result, summary.total_nfts_held is the sum of token_count over
\* the holders and is not negative.
C19_HeldIsSumOfCounts ==
    lux.pc = "returned" =>
        /\ lux.results.summary.total_nfts_held = SumOfCounts(lux.results.holders)
        /\ lux.results.summary.total_nfts_held >= 0

\* the entries of the written genesis for address v, compared without case
EntriesFor(v) ==
    {i \in 1..Len(xchain.genesis.allocations) :
        Lower(xchain.genesis.allocations[i].ethAddr) = Lower(v)}

\* the allocations of the ZOO file for address v, compared without case
ZooFor(v) ==
    {j \in 1..Len(xchain.zoo_file.allocations) :
        Lower(xchain.zoo_file.allocations[j].addr) = Lower(v)}

\* C20: in the written genesis every bootstrap validator has exactly one
\* entry, addresses compared without case: the ZOO entry, with amount
\* zoo_equivalent * 10^9, when the ZOO file has the validator, and otherwise
\* one entry with the fixed amount.
C20_OneEntryPerValidator ==
    xchain.pc = "done" =>
        \A k \in 1..Len(bootstrap_validators) :
            LET v == bootstrap_validators[k]
            IN  /\ Cardinality(EntriesFor(v)) = 1
                /\ \A i \in EntriesFor(v) :
                      LET entry == xchain.genesis.allocations[i]
                      IN  IF ZooFor(v) # {}
                          THEN \E j \in ZooFor(v) :
                                  /\ entry.ethAddr = xchain.zoo_file.allocations[j].addr
                                  /\ entry.initialAmount =
                                        Str(xchain.zoo_file.allocations[j].zoo_equivalent)
                                            \o <<"0", "0", "0", "0", "0", "0", "0", "0", "0">>
                          ELSE /\ entry.ethAddr = v
                               /\ entry.initialAmount =
                                     <<"1", "0", "0", "0", "0", "0", "0", "0", "0",
                                       "0", "0", "0", "0", "0", "0", "0", "0", "0">>

\* a genesis was written in which the first validator keeps the entry of its
\* lower-case ZOO key and the second validator has the fixed amount
C20_Witness ==
    /\ xchain.pc = "done"
    /\ ZooFor(bootstrap_validators[1]) # {}
    /\ \E i \in EntriesFor(bootstrap_validators[1]) :
          /\ xchain.genesis.allocations[i].ethAddr # bootstrap_validators[1]
          /\ xchain.genesis.allocations[i].initialAmount = NLux(ZooPerEgg)
    /\ \E i \in EntriesFor(bootstrap_validators[2]) :
          xchain.genesis.allocations[i].initialAmount = ValidatorFunds

\* the buyers: the senders of the transfers, in lower case
Buyers ==
    {Lower(purchases.transfers[i].from) : i \in 1..Len(purchases.transfers)}

\* the payments of buyer b among the first n transfers, summed with all digits
RECURSIVE PaidBy(_, _)
PaidBy(b, n) ==
    IF n = 0 THEN [units |-> 0, wei |-> NoWei]
    ELSE IF Lower(purchases.transfers[n].from) = b
         THEN ExactSum(PaidBy(b, n - 1), purchases.transfers[n].amount)
         ELSE PaidBy(b, n - 1)

\* the whole eggs the payments of b buy: the floor of wei paid / (42 * 10^23)
FloorEggs(b) == PaidBy(b, Len(purchases.transfers)).units \div 42

\* the tokens b holds, 0 for an address that is no holder
Held(b) ==
    IF IsEggHolder(purchases.holders_file, b) THEN HeldCount(purchases.holders_file, b) ELSE 0

\* the entries the list is to have
ExpectedDiscrepancies ==
    { [address    |-> b,
       purchased  |-> FloorEggs(b),
       held       |-> Held(b),
       difference |-> FloorEggs(b) - Held(b)] :
      b \in {c \in Buyers : FloorEggs(c) >= 1 /\ FloorEggs(c) # Held(c)} }

RECURSIVE PositiveDifferences(_)
PositiveDifferences(entries) ==
    IF entries = {} THEN 0
    ELSE LET e == CHOOSE x \in entries : TRUE
         IN  (IF e.difference > 0 THEN e.difference ELSE 0)
                 + PositiveDifferences(entries \ {e})

\* C21: the saved discrepancy list has exactly one entry for each buyer whose
\* purchased egg count (the floor of the summed payments over the price of an
\* egg, when at least 1) differs from the held count, with difference =
\* purchased - held, and total_undelivered is the sum of the positive
\* differences.
C21_DiscrepancyPerDifferingBuyer ==
    purchases.pc = "saved" =>
        LET ds == purchases.results.discrepancies
        IN  /\ {ds[i] : i \in 1..Len(ds)} = ExpectedDiscrepancies
            /\ \A i, j \in 1..Len(ds) : ds[i].address = ds[j].address => i = j
            /\ purchases.results.summary.total_undelivered
                   = PositiveDifferences(ExpectedDiscrepancies)

====
